---- MODULE Spec2Model ----
(***************************************************************************)
(* Model of src/index.ts: the four GraphQL resolvers (User.tweets,         *)
(* Tweets.user, Query.tweets, Query.user) over the Firestore collections   *)
(* `users` and `tweets`.                                                   *)
(*                                                                         *)
(* Every resolver is an async function with exactly one `await`: it runs   *)
(* up to the awaited Firestore call (the *_call action), is suspended, and *)
(* is resumed either with the snapshot (the *_return action) or with the   *)
(* rejection of the awaited promise (the *_catch / *_reject action).       *)
(* Several invocations may be suspended at the same time.                  *)
(***************************************************************************)
EXTENDS Naturals, Sequences, FiniteSets, Bags, TLC

\* ------------------------------------------------------------------ bounds
\* number of tweet documents the store may hold
MaxTweets == 3
\* number of resolver invocations that may be in flight together (SpecConc)
MaxReqs == 2

\* ------------------------------------------------------------- data model
TweetNames == <<"t1", "t2", "t3", "t4", "t5">>
TweetKeys == {TweetNames[i] : i \in 1..MaxTweets}
\* keys a user document may be stored under
UserKeys == {"u1", "u2"}
\* values of the `id` argument of Query.user: the keys and the empty string
IdArgs == UserKeys \cup {""}
\* ways the awaited Firestore call can be rejected
StoreErrors == {"unavailable", "permission-denied"}

\* interface User: the fields of a document of the `users` collection
User(id) ==
  [id |-> id, name |-> "name", screenName |-> "screenName", statusesCount |-> 0]

\* type Tweets / the fields of a document of the `tweets` collection
Tweet(id, userId) ==
  [id |-> id, text |-> "text", userId |-> userId, likes |-> 0]

\* the database: each collection maps the keys of its documents to their fields
Databases ==
  { [users |-> [k \in U |-> User(k)], tweets |-> t] :
      U \in SUBSET UserKeys,
      t \in { [k \in DOMAIN f |-> Tweet(k, f[k])] :
               f \in UNION { [K -> UserKeys] : K \in SUBSET TweetKeys } } }

\* ------------------------------------------------------- JavaScript values
None == [tag |-> "none"]
Undefined == [tag |-> "undefined"]
Object(fields) == [tag |-> "object", data |-> fields]
Array(items) == [tag |-> "array", items |-> items]
ValidationError(message) == [tag |-> "ValidationError", message |-> message]
ApolloError(error) == [tag |-> "ApolloError", error |-> error]
FirestoreError(code) == [tag |-> "FirestoreError", code |-> code]

\* how an invocation ends: `return v` or `throw v`
Return(v) == [kind |-> "return", value |-> v]
Throw(v) == [kind |-> "throw", value |-> v]

\* x || y
Or(x, y) == IF x = Undefined THEN y ELSE x

\* ------------------------------------------------------ the Firestore client
\* the requests a resolver sends: .doc(path).get(), .collection(c).get() and
\* .collection(c).where(field, '==', value).get()
DocGet(path) == [op |-> "doc.get", path |-> path, where |-> <<>>]
CollectionGet(c) == [op |-> "collection.get", path |-> <<c>>, where |-> <<>>]
WhereGet(c, field, value) ==
  [op |-> "collection.get", path |-> <<c>>, where |-> <<field, "==", value>>]

\* the template string `users/${id}`, as the collection and the document key
UsersPath(id) == <<"users", id>>

\* DocumentSnapshot of .doc(path).get(): the document stored under the key
DocumentSnapshot(database, path) ==
  LET c == database[path[1]]
  IN IF path[2] \in DOMAIN c
       THEN [exists |-> TRUE, fields |-> c[path[2]]]
       ELSE [exists |-> FALSE, fields |-> None]

\* snapshot.data(): the fields of the document, undefined when it does not exist
data(snapshot) == IF snapshot.exists THEN Object(snapshot.fields) ELSE Undefined

\* Selected without its filter: where(..) is dropped from the query
SelectedAll(database, request) == DOMAIN database[request.path[1]]

\* the keys of the documents a collection request selects
Selected(database, request) ==
  LET c == database[request.path[1]]
  IN IF request.where = <<>>
       THEN DOMAIN c
       ELSE {k \in DOMAIN c : c[k][request.where[1]] = request.where[3]}

\* every order in which the store may yield a finite set
Orders(S) ==
  {s \in [1..Cardinality(S) -> S] : \A i, j \in DOMAIN s : i # j => s[i] # s[j]}

\* QuerySnapshot of .collection(c)[.where(..)].get(): the selected documents,
\* in whatever order the store yields them
QuerySnapshots(database, request) ==
  LET c == database[request.path[1]]
  IN {[docs |-> [i \in DOMAIN s |-> [exists |-> TRUE, fields |-> c[s[i]]]]] :
        s \in Orders(Selected(database, request))}

\* the snapshots with which the awaited get() of a request may be fulfilled
Snapshots(database, request) ==
  IF request.op = "doc.get"
    THEN {DocumentSnapshot(database, request.path)}
    ELSE QuerySnapshots(database, request)

\* AfterGet of a client that deletes what it was asked to read
AfterGetDeleting(database, request) ==
  [database EXCEPT ![request.path[1]] = [k \in {} |-> None]]

\* the database after the client served a request: get() only reads
AfterGet(database, request) == database

\* Send of a client that coalesces: a request already sent is not sent again
SendCoalesced(sent, request) ==
  IF BagIn(request, sent) THEN sent ELSE sent (+) SetToBag({request})

\* the client sends one request to the store for every get() it is asked for
Send(sent, request) == sent (+) SetToBag({request})

\* MapData that yields no array for an empty snapshot
MapDataOrUndefined(docs) ==
  IF docs = <<>> THEN Undefined ELSE Array([i \in DOMAIN docs |-> data(docs[i])])

\* docs.map(tweet => tweet.data())
MapData(docs) == Array([i \in DOMAIN docs |-> data(docs[i])])

\* ------------------------------------------------------------- resolvers
\* User.tweets(user)
User_tweets_request(user) == WhereGet("tweets", "userId", user.id)
User_tweets_value(userTweets) == Return(MapData(userTweets.docs))
\* User_tweets_error with a catch block that swallows the error
User_tweets_error_swallowed(error) == Return(Undefined)
User_tweets_error(error) == Throw(ApolloError(error))

\* Tweets.user(tweet)
\* Tweets_user_request keyed by the tweet's own id
Tweets_user_request_by_id(tweet) == DocGet(UsersPath(tweet.id))
Tweets_user_request(tweet) == DocGet(UsersPath(tweet.userId))
Tweets_user_value(tweetAuthor) == Return(data(tweetAuthor))
Tweets_user_error(error) == Throw(ApolloError(error))

\* Query.tweets()
Query_tweets_request == CollectionGet("tweets")
Query_tweets_value(tweets) == Return(MapData(tweets.docs))
\* Query_tweets_error wrapped like the other three resolvers
Query_tweets_error_wrapped(error) == Throw(ApolloError(error))
Query_tweets_error(error) == Throw(error)

\* Query.user(_, args)
Query_user_request(args) == DocGet(UsersPath(args.id))
\* Query_user_value that throws the ValidationError instead of returning it
Query_user_value_throwing(userDoc) ==
  LET user == data(userDoc)
  IN IF user = Undefined
       THEN Throw(ValidationError("User ID not found"))
       ELSE Return(user)
Query_user_value(userDoc) ==
  LET user == data(userDoc)
  IN Return(Or(user, ValidationError("User ID not found")))
Query_user_error(error) == Throw(ApolloError(error))

\* ------------------------------------------------------------------ state
\* db:  the Firestore database behind admin.firestore()
\* inv: the resolver invocations; pc is "idle" (not called), "await"
\*      (suspended at its await) or "done" (returned or thrown)
\* log: the requests the client has sent to the store
VARIABLES db, inv, log

vars == <<db, inv, log>>

Idle ==
  [pc |-> "idle", op |-> "none", parent |-> None, args |-> None,
   request |-> None, calls |-> 0, response |-> None, outcome |-> None]

\* Awaited kept in one module-level variable shared by the invocations
AwaitedShared(r) ==
  inv[CHOOSE q \in DOMAIN inv :
        inv[q].pc = "await" /\ inv[q].op = inv[r].op].request

\* the request a suspended invocation awaits: a const local to the invocation
Awaited(r) == inv[r].request

\* a resolver runs up to its await: it has sent its one request
Suspend(r, op, parent, args, request) ==
  /\ inv[r].pc = "idle"
  /\ inv' = [inv EXCEPT ![r] =
       [pc |-> "await", op |-> op, parent |-> parent, args |-> args,
        request |-> request, calls |-> inv[r].calls + 1,
        response |-> None, outcome |-> None]]
  /\ log' = Send(log, request)
  /\ db' = AfterGet(db, request)

\* a suspended resolver is resumed and ends
Settle(r, response, outcome) ==
  /\ inv' = [inv EXCEPT ![r].pc = "done", ![r].response = response,
                        ![r].outcome = outcome]
  /\ UNCHANGED <<db, log>>

\* how the awaited promise settled
Fulfilled == [ok |-> TRUE, error |-> None]
Rejected(error) == [ok |-> FALSE, error |-> error]

User_tweets_call(r) ==
  \E k \in DOMAIN db.users :
    LET user == db.users[k]
    IN Suspend(r, "User.tweets", Object(user), None, User_tweets_request(user))

User_tweets_return(r) ==
  /\ inv[r].pc = "await" /\ inv[r].op = "User.tweets"
  /\ \E userTweets \in Snapshots(db, Awaited(r)) :
       Settle(r, Fulfilled, User_tweets_value(userTweets))

User_tweets_catch(r) ==
  /\ inv[r].pc = "await" /\ inv[r].op = "User.tweets"
  /\ \E code \in StoreErrors :
       LET error == FirestoreError(code)
       IN Settle(r, Rejected(error), User_tweets_error(error))

Tweets_user_call(r) ==
  \E k \in DOMAIN db.tweets :
    LET tweet == db.tweets[k]
    IN Suspend(r, "Tweets.user", Object(tweet), None, Tweets_user_request(tweet))

Tweets_user_return(r) ==
  /\ inv[r].pc = "await" /\ inv[r].op = "Tweets.user"
  /\ \E tweetAuthor \in Snapshots(db, Awaited(r)) :
       Settle(r, Fulfilled, Tweets_user_value(tweetAuthor))

Tweets_user_catch(r) ==
  /\ inv[r].pc = "await" /\ inv[r].op = "Tweets.user"
  /\ \E code \in StoreErrors :
       LET error == FirestoreError(code)
       IN Settle(r, Rejected(error), Tweets_user_error(error))

Query_tweets_call(r) ==
  Suspend(r, "Query.tweets", None, None, Query_tweets_request)

Query_tweets_return(r) ==
  /\ inv[r].pc = "await" /\ inv[r].op = "Query.tweets"
  /\ \E tweets \in Snapshots(db, Awaited(r)) :
       Settle(r, Fulfilled, Query_tweets_value(tweets))

Query_tweets_reject(r) ==
  /\ inv[r].pc = "await" /\ inv[r].op = "Query.tweets"
  /\ \E code \in StoreErrors :
       LET error == FirestoreError(code)
       IN Settle(r, Rejected(error), Query_tweets_error(error))

Query_user_call(r) ==
  \E id \in IdArgs :
    LET args == [id |-> id]
    IN Suspend(r, "Query.user", None, Object(args), Query_user_request(args))

Query_user_return(r) ==
  /\ inv[r].pc = "await" /\ inv[r].op = "Query.user"
  /\ \E userDoc \in Snapshots(db, Awaited(r)) :
       Settle(r, Fulfilled, Query_user_value(userDoc))

Query_user_catch(r) ==
  /\ inv[r].pc = "await" /\ inv[r].op = "Query.user"
  /\ \E code \in StoreErrors :
       LET error == FirestoreError(code)
       IN Settle(r, Rejected(error), Query_user_error(error))

\* one resolver invocation against any database
Init ==
  /\ db \in Databases
  /\ inv = [r \in {1} |-> Idle]
  /\ log = EmptyBag

\* the databases of the concurrent runs: every tweet is stored, user u1 is
\* stored and user u2 is not; all tweets are by u1, or all but the last
ScenarioDatabases ==
  { [users |-> [k \in {"u1"} |-> User(k)],
     tweets |-> [k \in TweetKeys |->
                   Tweet(k, IF k = TweetNames[MaxTweets] THEN last ELSE "u1")]] :
      last \in UserKeys }

\* MaxReqs resolver invocations, interleaved at their awaits
InitConc ==
  /\ db \in ScenarioDatabases
  /\ inv = [r \in 1..MaxReqs |-> Idle]
  /\ log = EmptyBag

Next ==
  \E r \in DOMAIN inv :
    \/ User_tweets_call(r)
    \/ User_tweets_return(r)
    \/ User_tweets_catch(r)
    \/ Tweets_user_call(r)
    \/ Tweets_user_return(r)
    \/ Tweets_user_catch(r)
    \/ Query_tweets_call(r)
    \/ Query_tweets_return(r)
    \/ Query_tweets_reject(r)
    \/ Query_user_call(r)
    \/ Query_user_return(r)
    \/ Query_user_catch(r)

Spec == Init /\ [][Next]_vars

SpecConc == InitConc /\ [][Next]_vars

\* ---------------------------------------------------------------- claims
Done(r) == inv[r].pc = "done"
Called(r) == inv[r].pc # "idle"
Succeeded(r) == Done(r) /\ inv[r].response.ok
Failed(r) == Done(r) /\ ~inv[r].response.ok
Returned(r) == inv[r].outcome.kind = "return"
Elements(seq) == {seq[i] : i \in DOMAIN seq}
TweetsOf(u) == {Object(db.tweets[k]) : k \in {j \in DOMAIN db.tweets : db.tweets[j].userId = u}}
AllTweets == {Object(db.tweets[k]) : k \in DOMAIN db.tweets}
\* v is an array that holds every element of S exactly once
IsArrayOf(v, S) ==
  /\ v.tag = "array"
  /\ Elements(v.items) = S
  /\ Len(v.items) = Cardinality(S)

\* C1: User.tweets for the user with id u returns exactly the tweets whose
\* userId is u, each once, whatever the order in which the store yields them.
C1_UserTweetsExact ==
  \A r \in DOMAIN inv :
    (Succeeded(r) /\ inv[r].op = "User.tweets") =>
      /\ Returned(r)
      /\ IsArrayOf(inv[r].outcome.value, TweetsOf(inv[r].parent.data.id))

\* a user with two tweets, yielded by the store in the order t2, t1, while the
\* collection also holds a tweet of another user
C1_Witness ==
  \E r \in DOMAIN inv :
    /\ Succeeded(r) /\ inv[r].op = "User.tweets"
    /\ Len(inv[r].outcome.value.items) = 2
    /\ inv[r].outcome.value.items[1].data.id = "t2"
    /\ inv[r].outcome.value.items[2].data.id = "t1"
    /\ \E k \in DOMAIN db.tweets : db.tweets[k].userId # inv[r].parent.data.id

C3_QueryUserNotFound ==
  \A r \in DOMAIN inv :
    (Succeeded(r) /\ inv[r].op = "Query.user") =>
      LET id == inv[r].args.data.id
      IN IF id \in DOMAIN db.users
           THEN inv[r].outcome = Return(Object(db.users[id]))
           ELSE inv[r].outcome = Return(ValidationError("User ID not found"))

\* Query.user for the key of a document that is missing, another being stored
C3_Witness ==
  \E r \in DOMAIN inv :
    /\ Succeeded(r) /\ inv[r].op = "Query.user"
    /\ inv[r].args.data.id \in UserKeys \ DOMAIN db.users
    /\ db.users # <<>>
    /\ Returned(r)

\* C4 (as claimed): Query.user with the empty id sends nothing to the store
\* and ends in an input-validation failure that is neither the not-found
\* value nor a wrapped store failure.
C4_EmptyIdRejectedBeforeStore ==
  \A r \in DOMAIN inv :
    (Called(r) /\ inv[r].op = "Query.user" /\ inv[r].args.data.id = "") =>
      /\ inv[r].calls = 0
      /\ ~BagIn(Query_user_request([id |-> ""]), log)
      /\ Done(r) => (~Returned(r) /\ inv[r].outcome.value.tag = "ValidationError")

\* C5: when the awaited store call is rejected the resolver ends by throwing
\* (never with a result), and it has sent one request only.
C5_FailureSurfacedNotRetried ==
  /\ \A r \in DOMAIN inv :
       Failed(r) => (inv[r].outcome.kind = "throw" /\ inv[r].calls = 1)
  /\ BagCardinality(log) = Cardinality({r \in DOMAIN inv : Called(r)})

\* User.tweets whose store call was rejected
C5_Witness ==
  \E r \in DOMAIN inv :
    /\ Failed(r) /\ inv[r].op = "User.tweets"
    /\ inv[r].outcome.kind = "throw"

\* C6: Query.tweets on an empty collection, and User.tweets for a user none
\* of whose tweets is stored, return the empty array as their result.
C6_EmptyIsEmptyArray ==
  \A r \in DOMAIN inv :
    /\ (Succeeded(r) /\ inv[r].op = "Query.tweets" /\ AllTweets = {}) =>
         inv[r].outcome = Return(Array(<<>>))
    /\ (Succeeded(r) /\ inv[r].op = "User.tweets"
          /\ TweetsOf(inv[r].parent.data.id) = {}) =>
         inv[r].outcome = Return(Array(<<>>))

\* a stored user without tweets in a collection that is not empty
C6_Witness ==
  \E r \in DOMAIN inv :
    /\ Succeeded(r) /\ inv[r].op = "User.tweets"
    /\ TweetsOf(inv[r].parent.data.id) = {}
    /\ AllTweets # {}
    /\ Returned(r)

\* C7: every invocation sends exactly one request, and nothing is coalesced:
\* the store receives as many lookups of users/u as there are Tweets.user and
\* Query.user invocations for u, and as many requests as there are invocations.
C7_OneRequestPerInvocation ==
  /\ \A r \in DOMAIN inv : inv[r].calls = IF Called(r) THEN 1 ELSE 0
  /\ \A u \in IdArgs :
       CopiesIn(DocGet(UsersPath(u)), log) =
         Cardinality({r \in DOMAIN inv :
           \/ inv[r].op = "Tweets.user" /\ inv[r].parent.data.userId = u
           \/ inv[r].op = "Query.user" /\ inv[r].args.data.id = u})
  /\ BagCardinality(log) = Cardinality({r \in DOMAIN inv : Called(r)})

\* every invocation resolves Tweets.user, for distinct tweets of one user
C7_Witness ==
  /\ \A r \in DOMAIN inv : inv[r].op = "Tweets.user"
  /\ \A r, q \in DOMAIN inv :
       /\ inv[r].parent.data.userId = inv[q].parent.data.userId
       /\ r # q => inv[r].parent # inv[q].parent
  /\ \E u \in UserKeys : CopiesIn(DocGet(UsersPath(u)), log) = Cardinality(DOMAIN inv)

\* C8: a rejected store call ends Query.tweets with the store's own error,
\* and ends each of the other three resolvers with that error wrapped in an
\* ApolloError.
C8_OnlyQueryTweetsUnwrapped ==
  \A r \in DOMAIN inv :
    Failed(r) =>
      /\ inv[r].response.error.tag = "FirestoreError"
      /\ inv[r].outcome =
           IF inv[r].op = "Query.tweets"
             THEN Throw(inv[r].response.error)
             ELSE Throw(ApolloError(inv[r].response.error))

\* Query.tweets whose store call was rejected
C8_Witness ==
  \E r \in DOMAIN inv :
    /\ Failed(r) /\ inv[r].op = "Query.tweets"
    /\ inv[r].outcome.value.tag = "FirestoreError"

\* o is an outcome of a resolver invocation that runs alone against db
AloneOutcome(op, parent, args, o) ==
  LET rejected(e) == e.tag = "FirestoreError" /\ e.code \in StoreErrors
      wrapped == /\ o.kind = "throw"
                 /\ o.value.tag = "ApolloError"
                 /\ rejected(o.value.error)
      found(id, missing) ==
        /\ o.kind = "return"
        /\ o.value = IF id \in DOMAIN db.users
                       THEN Object(db.users[id]) ELSE missing
  IN CASE op = "Query.tweets" ->
            \/ o.kind = "return" /\ IsArrayOf(o.value, AllTweets)
            \/ o.kind = "throw" /\ rejected(o.value)
       [] op = "User.tweets" ->
            \/ o.kind = "return" /\ IsArrayOf(o.value, TweetsOf(parent.data.id))
            \/ wrapped
       [] op = "Tweets.user" ->
            \/ found(parent.data.userId, Undefined)
            \/ wrapped
       [] op = "Query.user" ->
            \/ found(args.data.id, ValidationError("User ID not found"))
            \/ wrapped

\* C9: however the invocations interleave at their awaits, each one ends with
\* an outcome it can end with when it runs alone against the same database.
C9_InterleavingIndependent ==
  \A r \in DOMAIN inv :
    Done(r) => AloneOutcome(inv[r].op, inv[r].parent, inv[r].args, inv[r].outcome)

\* an invocation has returned while another one of the same resolver, called
\* for a different parent, is suspended
C9_Witness ==
  \E r, q \in DOMAIN inv :
    /\ r # q
    /\ Succeeded(r) /\ inv[q].pc = "await"
    /\ inv[r].op = "Tweets.user" /\ inv[q].op = "Tweets.user"
    /\ inv[r].parent.data.userId # inv[q].parent.data.userId

\* C10: no step of a resolver changes the users or the tweets collection.
C10_StoreReadOnly == [][db' = db]_vars

\* a resolver has run to its end against a database that holds documents
C10_Witness ==
  \E r \in DOMAIN inv :
    /\ Done(r)
    /\ db.users # <<>> /\ db.tweets # <<>>

====
